---- MODULE Spec2Model ----
(***************************************************************************)
(* Hospital-bill extraction service: the page classifier                   *)
(* (classify_page_text), the item extraction wrapper                       *)
(* (extract_items_from_text), the per-document loop (extract_document of   *)
(* extractor.py) and the /extract endpoint (extract_document of main.py). *)
(* Texts are strings; keyword tests are substring tests on the lowercased  *)
(* text, as in the Python source.                                          *)
(***************************************************************************)
EXTENDS Integers, Sequences, FiniteSets, TLC

\* ------------------------------------------------------------------ bounds
MaxLines == 3    \* lines of a text handed to the classifier
MaxPages == 2    \* pages of a document
MaxItems == 1    \* items the extraction model reports for one page

\* ---------------------------------------------------------- string helpers
CharAt(s, i) == SubSeq(s, i, i)

UpperChars == "ABCDEFGHIJKLMNOPQRSTUVWXYZ"
LowerChars == "abcdefghijklmnopqrstuvwxyz"
DigitChars == "0123456789"

CharSet(chars) == {CharAt(chars, i) : i \in 1..Len(chars)}
UpperSet == CharSet(UpperChars)
LowerSet == CharSet(LowerChars)
DigitSet == CharSet(DigitChars)

\* str.lower() on one character
LowerOf ==
    [c \in UpperSet |->
        CharAt(LowerChars, CHOOSE i \in 1..Len(UpperChars) : CharAt(UpperChars, i) = c)]
LowerChar(c) == IF c \in UpperSet THEN LowerOf[c] ELSE c

\* str.lower(), by halves
RECURSIVE Lower(_)
Lower(s) ==
    IF Len(s) = 0 THEN ""
    ELSE IF Len(s) = 1 THEN LowerChar(s)
    ELSE LET h == Len(s) \div 2
         IN  Lower(SubSeq(s, 1, h)) \o Lower(SubSeq(s, h + 1, Len(s)))

\* Python's `k in t` on strings
Contains(k, t) ==
    \E i \in 1..(Len(t) - Len(k) + 1) : SubSeq(t, i, i + Len(k) - 1) = k

IsSpace(c) == c \in {" ", "\n", "\t", "\r"}
IsDigit(c) == c \in DigitSet
\* \w of the re module
IsWord(c) == c \in DigitSet \/ c \in LowerSet \/ c \in UpperSet \/ c = "_"

RECURSIVE LStrip(_)
LStrip(s) == IF Len(s) > 0 /\ IsSpace(CharAt(s, 1)) THEN LStrip(SubSeq(s, 2, Len(s))) ELSE s
RECURSIVE RStrip(_)
RStrip(s) ==
    IF Len(s) > 0 /\ IsSpace(CharAt(s, Len(s))) THEN RStrip(SubSeq(s, 1, Len(s) - 1)) ELSE s
\* str.strip()
Strip(s) == RStrip(LStrip(s))

\* position of the first "\n" of s at or after i, Len(s) + 1 when there is none
NextNewline(s, i) ==
    IF \E j \in i..Len(s) : CharAt(s, j) = "\n"
    THEN CHOOSE j \in i..Len(s) :
             CharAt(s, j) = "\n" /\ \A k \in i..(j - 1) : CharAt(s, k) # "\n"
    ELSE Len(s) + 1

\* str.split("\n"): the pieces between newlines, from position i on
RECURSIVE SplitFrom(_, _)
SplitFrom(s, i) ==
    LET n == NextNewline(s, i)
    IN  IF n > Len(s) THEN <<SubSeq(s, i, Len(s))>>
        ELSE <<SubSeq(s, i, n - 1)>> \o SplitFrom(s, n + 1)
SplitLines(s) == SplitFrom(s, 1)

\* number of keywords of the list `kws` that occur in t
CountHits(kws, t) == Cardinality({i \in 1..Len(kws) : Contains(kws[i], t)})
AnyHit(kws, t) == \E i \in 1..Len(kws) : Contains(kws[i], t)

\* ------------------------------------------- the row pattern of the classifier
\* item_row_pattern = r"\b(\d+\.?\d*)\s+(\d+\.?\d*)\s+(\d+\.?\d*)"
RECURSIVE DigitsEnd(_, _)
\* first position >= i that holds no digit
DigitsEnd(t, i) ==
    IF i <= Len(t) /\ IsDigit(CharAt(t, i)) THEN DigitsEnd(t, i + 1) ELSE i
RECURSIVE SpacesEnd(_, _)
SpacesEnd(t, i) ==
    IF i <= Len(t) /\ IsSpace(CharAt(t, i)) THEN SpacesEnd(t, i + 1) ELSE i

\* greedy end (exclusive) of \d+\.?\d* at i, 0 when it does not match
NumberEnd(t, i) ==
    LET d == DigitsEnd(t, i)
    IN  IF d = i THEN 0
        ELSE IF d <= Len(t) /\ CharAt(t, d) = "." THEN DigitsEnd(t, d + 1) ELSE d

\* end (exclusive) of \d+\.?\d*\s+ at i, 0 when it does not match: the number
\* runs to the next whitespace, which backtracking cannot change
NumberSpaceEnd(t, i) ==
    LET e == NumberEnd(t, i)
    IN  IF e = 0 THEN 0
        ELSE LET s == SpacesEnd(t, e) IN IF s = e THEN 0 ELSE s

WordBoundaryBefore(t, i) ==
    /\ i <= Len(t)
    /\ IsWord(CharAt(t, i))
    /\ (i = 1 \/ ~IsWord(CharAt(t, i - 1)))

\* end (exclusive) of a match of item_row_pattern starting at i, 0 when none
RowMatchEnd(t, i) ==
    IF ~WordBoundaryBefore(t, i) THEN 0
    ELSE LET a == NumberSpaceEnd(t, i)
         IN  IF a = 0 THEN 0
             ELSE LET b == NumberSpaceEnd(t, a)
                  IN  IF b = 0 THEN 0 ELSE NumberEnd(t, b)

\* len(re.findall(item_row_pattern, t)): non-overlapping matches, left to
\* right; starts is the set of positions where the pattern matches
RECURSIVE CountRowsFrom(_, _, _)
CountRowsFrom(t, starts, i) ==
    LET later == {j \in starts : j >= i}
    IN  IF later = {} THEN 0
        ELSE LET m == CHOOSE j \in later : \A k \in later : j <= k
             IN  1 + CountRowsFrom(t, starts, RowMatchEnd(t, m))
CountRows(t) == CountRowsFrom(t, {i \in 1..Len(t) : RowMatchEnd(t, i) # 0}, 1)

\* ------------------------------------------------------------- the lexicons
final_bill_signals ==
    << "patient name", "bill no", "uhid",
       "admission date", "discharge date",
       "net amount payable", "net bill amount",
       "total bill amount", "grand total", "amount received" >>

final_bill_categories ==
    << "consultation", "room rent", "bed charges", "investigation",
       "laboratory", "radiology", "pathology",
       "medical consumable", "drugs", "procedures",
       "surgery", "miscellaneous services" >>

non_pharmacy_hard ==
    << "consultation", "consultant",
       "dr.", "doctor", "surgeon", "general surgery",
       "dietician", "dietary",
       "procedure", "surgery",
       "ward", "room rent" >>

bill_detail_keywords ==
    << "x-ray", "xray", "usg", "ultrasound", "echo", "2d echo",
       "mri", "ct", "ecg",
       "cbc", "blood", "culture",
       "serum", "lipid", "crp",
       "lft", "kft", "widal", "hba1c",
       "radiology", "pathology", "laboratory" >>

pharmacy_keywords ==
    << "pharmacy", "drug", "batch", "batch no", "mtrs name",
       "tablet", "tab ", "cap ", "capsule",
       "inj ", "injection", "vial",
       "syp", "syrup", "ointment", "gel",
       "mrp", "gst" >>

med_indicators == << "tab", "cap", "inj", "syp" >>

\* ----------------------------------------------------- classify_page_text
\* the conditions of the rule chain, on the lowercased text t
strong_final(t) == CountHits(final_bill_signals, t) >= 2
category_final_one(t) == CountHits(final_bill_categories, t) >= 1
category_final(t) == CountHits(final_bill_categories, t) >= 2
line_items(t) == CountRows(t)
strict_pharm_hits_less_one(t) == CountHits(pharmacy_keywords, t) - 1
strict_pharm_hits(t) == CountHits(pharmacy_keywords, t)
non_pharmacy_override_short(t) == AnyHit(SubSeq(non_pharmacy_hard, 1, 10), t)
non_pharmacy_override(t) == AnyHit(non_pharmacy_hard, t)
bill_detail_hit(t) == AnyHit(bill_detail_keywords, t)

\* lines = [l.strip() for l in t.split("\n") if l.strip()]
lines(t) ==
    LET parts == SplitLines(t)
    IN  SelectSeq([i \in 1..Len(parts) |-> Strip(parts[i])], LAMBDA l : l # "")

med_lines(t) ==
    LET ls == lines(t)
    IN  Cardinality({i \in 1..Len(ls) : AnyHit(med_indicators, ls[i])})

\* usage objects: DummyUsage() and a response's usage_metadata have the two
\* counters as attributes; the dict of extract_items_from_text's outer handler
\* has them as keys only
UsageObject(p, c) == [kind |-> "object", prompt_token_count |-> p, candidates_token_count |-> c]
UsageDict(p, c) == [kind |-> "dict", prompt_token_count |-> p, candidates_token_count |-> c]
DummyUsage == UsageObject(0, 0)

Labels == {"Final Bill", "Bill Detail", "Pharmacy"}

\* what a function call ends in: a returned (value, usage) pair or an exception
Returned(v, u) == [raised |-> FALSE, value |-> v, usage |-> u]
Raised == [raised |-> TRUE, value |-> "", usage |-> DummyUsage]

\* a call of generate_content: it raises, or gives a response with text and
\* usage_metadata
ModelResponse(txt, u) == [raises |-> FALSE, text |-> txt, usage_metadata |-> u]
ModelRaises == [raises |-> TRUE, text |-> "", usage_metadata |-> DummyUsage]

gemini_fallback_pharm_first(text, resp) ==
    IF resp.raises THEN Raised
    ELSE LET label == Lower(Strip(resp.text))
         IN  IF Contains("pharm", label) THEN Returned("Pharmacy", resp.usage_metadata)
             ELSE IF Contains("final", label) THEN Returned("Final Bill", resp.usage_metadata)
             ELSE Returned("Bill Detail", resp.usage_metadata)

\* section 5 of classify_page_text: the label is read off the model's answer
gemini_fallback(text, resp) ==
    IF resp.raises THEN Raised
    ELSE LET label == Lower(Strip(resp.text))
         IN  IF Contains("final", label) THEN Returned("Final Bill", resp.usage_metadata)
             ELSE IF Contains("pharm", label) THEN Returned("Pharmacy", resp.usage_metadata)
             ELSE Returned("Bill Detail", resp.usage_metadata)

NoRule == [raised |-> FALSE, value |-> "", usage |-> DummyUsage]

classify_rules_no_handwritten(text) ==
    LET t == Lower(text)
    IN  IF strong_final(t) /\ category_final(t) THEN Returned("Final Bill", DummyUsage)
        ELSE IF non_pharmacy_override(t) THEN Returned("Bill Detail", DummyUsage)
        ELSE IF line_items(t) >= 5 THEN Returned("Bill Detail", DummyUsage)
        ELSE IF bill_detail_hit(t) THEN Returned("Bill Detail", DummyUsage)
        ELSE IF strict_pharm_hits(t) >= 3 THEN Returned("Pharmacy", DummyUsage)
        ELSE NoRule

\* sections 1-4 of classify_page_text: the rule chain on the text alone;
\* NoRule when the function goes on to the model
classify_rules(text) ==
    LET t == Lower(text)
    IN  IF strong_final(t) /\ category_final(t) THEN Returned("Final Bill", DummyUsage)
        ELSE IF non_pharmacy_override(t) THEN Returned("Bill Detail", DummyUsage)
        ELSE IF line_items(t) >= 5 THEN Returned("Bill Detail", DummyUsage)
        ELSE IF bill_detail_hit(t) THEN Returned("Bill Detail", DummyUsage)
        ELSE IF strict_pharm_hits(t) >= 3 THEN Returned("Pharmacy", DummyUsage)
        ELSE IF med_lines(t) >= 3 THEN Returned("Pharmacy", DummyUsage)
        ELSE NoRule

\* classify_page_text(text), with resp the outcome of the GEMINI_CLASSIFIER call
\* that the function makes when no rule fires
classify_page_text(text, resp) ==
    LET r == classify_rules(text)
    IN  IF r # NoRule THEN r ELSE gemini_fallback(text, resp)

\* ------------------------------------------------ extract_items_from_text
\* The text of the GEMINI_ITEMS response is kept as what the function does with
\* it: "no_array" has no "[", "valid" is accepted by the first json.loads,
\* "fixable" by the second one after the trailing-comma and quote repairs,
\* "garbage" by neither; n is the number of items of the array.
ItemsResponse(shape, n, u) == [raises |-> FALSE, shape |-> shape, n |-> n, usage_metadata |-> u]
ItemsRaises == [raises |-> TRUE, shape |-> "garbage", n |-> 0, usage_metadata |-> DummyUsage]

Item(i) == [item_name |-> "item", item_rate |-> "1", item_quantity |-> "1", item_amount |-> "1"]
ItemList(n) == [i \in 1..n |-> Item(i)]

\* extract_items_from_text(text, page_type), with resp the outcome of the
\* GEMINI_ITEMS call; the outer handler returns a dict in place of a usage object
extract_items_from_text(text, page_type, resp) ==
    IF resp.raises THEN Returned(<<>>, UsageDict(0, 0))
    ELSE IF resp.shape = "no_array" THEN Returned(<<>>, resp.usage_metadata)
    ELSE IF resp.shape = "valid" THEN Returned(ItemList(resp.n), resp.usage_metadata)
    ELSE IF resp.shape = "fixable" THEN Returned(ItemList(resp.n), resp.usage_metadata)
    ELSE Returned(<<>>, resp.usage_metadata)

\* u.prompt_token_count, u.candidates_token_count: attribute access, which a
\* dict does not support
HasTokenAttributes(u) == u.kind = "object"

count_items_one_each(total_items, items) == total_items + 1
\* total_items += len(items)
count_items(total_items, items) == total_items + Len(items)

\* ------------------------------------------------------------ file helpers
is_pdf(url) == Contains(".pdf", Lower(url))
is_image(url) ==
    LET u == Lower(url)
    IN  Contains(".png", u) \/ Contains(".jpg", u) \/ Contains(".jpeg", u)

\* download_from_url: requests.get raises, or the status decides
DownloadOutcome(raises, status) == [raises |-> raises, status_code |-> status]
DownloadFails(d) == d.raises \/ d.status_code # 200

\* ------------------------------------------------------------------ inputs
\* the text of the final-bill example
ExampleFinalBillText ==
    "Patient Name: John, Admission Date: 1/1, Room Rent 500, Total Bill Amount 5000"

\* lines of OCR text the classifier is exercised on
Vocabulary ==
    { "UHID 7, Bill No 9",
      "Drugs, Investigation",
      "Room Rent 500",
      "1 2 3 4 5 6 7 8 9",
      "ECG",
      "Batch No, Exp, Mfr, Sch, Name of Drug",
      "Tab A MRP 5" }

RECURSIVE JoinLines(_)
JoinLines(ls) ==
    IF Len(ls) = 0 THEN ""
    ELSE IF Len(ls) = 1 THEN ls[1]
    ELSE ls[1] \o "\n" \o JoinLines(Tail(ls))

\* texts of at most MaxLines lines, and the example
Texts ==
    {ExampleFinalBillText}
        \cup UNION { {JoinLines(ls) : ls \in [1..n -> Vocabulary]} : n \in 0..MaxLines }

\* usage_metadata of a model response: one object, the counters play no part in
\* what the pages and labels become
ModelUsages == {UsageObject(7, 2)}

\* answers of the classifier model
ClassifierAnswers ==
    {"Final Bill", "Bill Detail", " PHARMACY\n", "final pharmacy bill", "unsure"}
ClassifierResponses ==
    {ModelRaises} \cup {ModelResponse(a, u) : a \in ClassifierAnswers, u \in ModelUsages}

\* documents and the pages OCR reads from them
Urls == {"h/bill.PDF", "h/scan.JPG", "h/doc"}
DownloadOutcomes == {DownloadOutcome(TRUE, 0), DownloadOutcome(FALSE, 200), DownloadOutcome(FALSE, 404)}

DocTexts ==
    { "Room Rent 500",
      "Tablet Dolo\nSyrup Cofex\nCapsule Amox",
      "Batch No, Exp, Mfr, Sch, Name of Drug",
      "UHID 7, Bill No 9\nDrugs, Investigation",
      "Thank you" }

OcrResponses == {ModelRaises} \cup {ModelResponse(t, u) : t \in DocTexts, u \in ModelUsages}

ItemShapes == {"no_array", "valid", "fixable", "garbage"}
ItemsResponses ==
    {ItemsRaises}
        \cup {ItemsResponse(sh, n, u) : sh \in ItemShapes, n \in 0..MaxItems, u \in ModelUsages}

\* ------------------------------------------------------------------- state
VARIABLES
    cls_text,      \* the text classify_page_text is called on
    cls_resp,      \* the classifier model's behaviour at the latest call
    cls_prev,      \* outcome of the call before the latest one
    cls_last,      \* outcome of the latest call
    pc,            \* position of the /extract request
    n_pages,       \* len(pages)
    page_no,       \* loop variable of extract_document
    text,          \* OCR text of the current page
    page_type,     \* label of the current page
    final_output,  \* pages appended so far
    total_items,
    total_in,
    total_out,
    response,      \* what the endpoint returned
    ocr_texts,     \* history: the text OCR gave for each page
    items_failed   \* history: pages whose item extraction failed

cls_vars == <<cls_text, cls_resp, cls_prev, cls_last>>
doc_vars ==
    <<pc, n_pages, page_no, text, page_type, final_output, total_items, total_in,
      total_out, response, ocr_texts, items_failed>>
vars == <<cls_vars, doc_vars>>

NoCall == [called |-> FALSE, raised |-> FALSE, label |-> ""]
Outcome(r) == [called |-> TRUE, raised |-> r.raised, label |-> r.value]
\* the model was not asked
NotAsked == [raises |-> FALSE, text |-> "<not asked>", usage_metadata |-> DummyUsage]
NoResponse == [pending |-> TRUE]

InitCls ==
    /\ cls_resp = NotAsked
    /\ cls_prev = NoCall
    /\ cls_last = NoCall

InitDoc ==
    /\ pc = "idle"
    /\ n_pages = 0
    /\ page_no = 0
    /\ text = ""
    /\ page_type = ""
    /\ final_output = <<>>
    /\ total_items = 0
    /\ total_in = 0
    /\ total_out = 0
    /\ response = NoResponse
    /\ ocr_texts = <<>>
    /\ items_failed = {}

\* --------------------------------------------------- the classifier alone
InitClassify == cls_text \in Texts /\ InitCls /\ InitDoc

\* one call classify_page_text(cls_text): the rules decide, or the model is asked
Classify ==
    LET r == classify_rules(cls_text)
    IN  /\ \/ /\ r # NoRule
              /\ cls_resp' = NotAsked
              /\ cls_last' = Outcome(r)
           \/ /\ r = NoRule
              /\ \E resp \in ClassifierResponses :
                    /\ cls_resp' = resp
                    /\ cls_last' = Outcome(gemini_fallback(cls_text, resp))
        /\ cls_prev' = cls_last
        /\ UNCHANGED <<cls_text, doc_vars>>

SpecClassify == InitClassify /\ [][Classify]_vars

\* ------------------------------------------------- the /extract operation
Init == cls_text = "" /\ InitCls /\ InitDoc

\* main.extract_document's handler: any exception becomes the error response
Fail(err) ==
    /\ pc' = "done"
    /\ response' = [is_success |-> FALSE, error |-> err]

\* lines 308-325: download, page images, the accumulators
StartExtract ==
    /\ pc = "idle"
    /\ \E url \in Urls, d \in DownloadOutcomes, pdf_raises \in BOOLEAN, n \in 1..MaxPages :
          IF DownloadFails(d)
          THEN /\ Fail("Failed to download document")
               /\ UNCHANGED <<n_pages, page_no>>
          ELSE IF is_image(url)
          THEN /\ n_pages' = 1
               /\ page_no' = 1
               /\ pc' = "ocr"
               /\ UNCHANGED response
          ELSE IF pdf_raises
          THEN /\ Fail("cannot open broken document")
               /\ UNCHANGED <<n_pages, page_no>>
          ELSE /\ n_pages' = n
               /\ page_no' = 1
               /\ pc' = "ocr"
               /\ UNCHANGED response
    /\ UNCHANGED <<cls_vars, text, page_type, final_output, total_items, total_in,
                   total_out, ocr_texts, items_failed>>

\* lines 333-339: gemini_ocr_extract and its usage
OcrStep ==
    /\ pc = "ocr"
    /\ \E resp \in OcrResponses :
          IF resp.raises
          THEN /\ Fail("ocr failed")
               /\ UNCHANGED <<text, total_in, total_out, ocr_texts>>
          ELSE /\ text' = resp.text
               /\ ocr_texts' = Append(ocr_texts, resp.text)
               /\ total_in' = total_in + resp.usage_metadata.prompt_token_count
               /\ total_out' = total_out + resp.usage_metadata.candidates_token_count
               /\ pc' = "classify"
               /\ UNCHANGED response
    /\ UNCHANGED <<cls_vars, n_pages, page_no, page_type, final_output, total_items,
                   items_failed>>

\* lines 341-347: classify_page_text and its usage
ClassifyStep ==
    /\ pc = "classify"
    /\ \E resp \in ClassifierResponses :
          LET r == classify_page_text(text, resp)
          IN  IF r.raised
              THEN /\ Fail("classifier failed")
                   /\ UNCHANGED <<page_type, total_in, total_out>>
              ELSE /\ page_type' = r.value
                   /\ total_in' = total_in + r.usage.prompt_token_count
                   /\ total_out' = total_out + r.usage.candidates_token_count
                   /\ pc' = "items"
                   /\ UNCHANGED response
    /\ UNCHANGED <<cls_vars, n_pages, page_no, text, final_output, total_items,
                   ocr_texts, items_failed>>

\* the item extraction of a page failed: the model call raised or its output
\* could not be parsed
ExtractionFailed(resp) == resp.raises \/ resp.shape \in {"no_array", "garbage"}

\* lines 349-363: extract_items_from_text, its usage, the page record
ExtractItemsStep ==
    /\ pc = "items"
    /\ \E resp \in ItemsResponses :
          LET r == extract_items_from_text(text, page_type, resp)
              items == r.value
              u3 == r.usage
          IN  /\ items_failed' =
                     IF ExtractionFailed(resp) THEN items_failed \cup {page_no}
                     ELSE items_failed
              /\ IF ~HasTokenAttributes(u3)
                 THEN /\ Fail("'dict' object has no attribute 'prompt_token_count'")
                      /\ UNCHANGED <<page_no, final_output, total_items, total_in, total_out>>
                 ELSE /\ total_in' = total_in + u3.prompt_token_count
                      /\ total_out' = total_out + u3.candidates_token_count
                      /\ total_items' = count_items(total_items, items)
                      /\ final_output' =
                             Append(final_output,
                                    [page_no |-> page_no, page_type |-> page_type,
                                     bill_items |-> items])
                      /\ page_no' = page_no + 1
                      /\ pc' = IF page_no = n_pages THEN "return" ELSE "ocr"
                      /\ UNCHANGED response
    /\ UNCHANGED <<cls_vars, n_pages, text, page_type, ocr_texts>>

\* lines 376-384, returned by the endpoint as it is
ReturnResult ==
    /\ pc = "return"
    /\ response' =
           [token_usage |->
                [total_tokens |-> total_in + total_out,
                 input_tokens |-> total_in,
                 output_tokens |-> total_out],
            pagewise_line_items |-> final_output,
            total_item_count |-> total_items]
    /\ pc' = "done"
    /\ UNCHANGED <<cls_vars, n_pages, page_no, text, page_type, final_output,
                   total_items, total_in, total_out, ocr_texts, items_failed>>

Next ==
    \/ StartExtract
    \/ OcrStep
    \/ ClassifyStep
    \/ ExtractItemsStep
    \/ ReturnResult

Spec == Init /\ [][Next]_vars

\* ================================================================== claims
\* what the claims say of a text, from the lexicons
SignalCount(txt) == CountHits(final_bill_signals, Lower(txt))
CategoryCount(txt) == CountHits(final_bill_categories, Lower(txt))
PharmacyHits(txt) == CountHits(pharmacy_keywords, Lower(txt))
HasOverridePhrase(txt) == AnyHit(non_pharmacy_hard, Lower(txt))
HasDiagnosticKeyword(txt) == AnyHit(bill_detail_keywords, Lower(txt))
MeetsFinalBill(txt) == SignalCount(txt) >= 2 /\ CategoryCount(txt) >= 2
EarlierRuleFires(txt) ==
    \/ MeetsFinalBill(txt)
    \/ HasOverridePhrase(txt)
    \/ CountRows(Lower(txt)) >= 5
    \/ HasDiagnosticKeyword(txt)
NoRuleMatches(txt) ==
    /\ ~EarlierRuleFires(txt)
    /\ PharmacyHits(txt) < 3
    /\ med_lines(Lower(txt)) < 3

\* the retail-pharmacy column headers of the specification's rule 1
pharmacy_header_terms == << "batch no", "exp", "mfr", "sch", "name of drug" >>
\* the administrative phrases of the specification's rule 2
admin_phrases ==
    << "patient name", "uhid", "admission date", "discharge date", "ward", "room rent" >>
\* the structural tokens of the specification's reconciliation pass
core_pharmacy_tokens == << "batch", "exp", "mrp", "rate", "mfr", "mfg" >>

RECURSIVE SumItems(_)
SumItems(pages) ==
    IF Len(pages) = 0 THEN 0 ELSE Len(Head(pages).bill_items) + SumItems(Tail(pages))

Succeeded == "pagewise_line_items" \in DOMAIN response

\* C1: a page whose item extraction failed (the model call raised, or its output
\* could not be parsed) is appended with an empty item list and the document
\* goes on; the failure never aborts the document.
C1_ExtractionFailureKeepsPage ==
    \A p \in items_failed :
        /\ p <= Len(final_output)
        /\ final_output[p].bill_items = <<>>

\* C2: every call of classify_page_text returns normally with one of the three
\* labels, whatever the text and whatever the classifier model does.
C2_ClassifyNeverFails ==
    cls_last.called => (~cls_last.raised /\ cls_last.label \in Labels)

C5_HeadersGivePharmacy ==
    (cls_last.called /\ CountHits(pharmacy_header_terms, Lower(cls_text)) >= 4)
        => cls_last.label = "Pharmacy"

\* C5 (amended): a text with at least 3 distinct pharmacy keywords is classified
\* Pharmacy unless an earlier rule fires: Final Bill when the final-bill
\* thresholds are met, Bill Detail on an override phrase, on 5 or more numeric
\* rows or on a diagnostic keyword.
C5_PharmacyAfterEarlierRules ==
    (cls_last.called /\ PharmacyHits(cls_text) >= 3)
        => /\ ~cls_last.raised
           /\ cls_last.label =
                  IF MeetsFinalBill(cls_text) THEN "Final Bill"
                  ELSE IF EarlierRuleFires(cls_text) THEN "Bill Detail"
                  ELSE "Pharmacy"

C5_Witness ==
    /\ cls_last.called
    /\ CountHits(pharmacy_header_terms, Lower(cls_text)) >= 4
    /\ PharmacyHits(cls_text) >= 3
    /\ HasOverridePhrase(cls_text)
    /\ cls_last.label = "Bill Detail"

\* C6 (as claimed): a text with an administrative phrase (patient name, UHID,
\* admission or discharge date, ward, room rent) is never classified Pharmacy.
C6_AdminPhraseNeverPharmacy ==
    (cls_last.called /\ AnyHit(admin_phrases, Lower(cls_text)))
        => cls_last.label # "Pharmacy"

\* C6 (amended): a text with one of the non-pharmacy override phrases of the
\* classifier (consultation, consultant, dr., doctor, surgeon, general surgery,
\* dietician, dietary, procedure, surgery, ward, room rent) is never classified
\* Pharmacy, however many pharmacy keywords it has.
C6_OverridePhraseNeverPharmacy ==
    (cls_last.called /\ HasOverridePhrase(cls_text))
        => /\ ~cls_last.raised
           /\ cls_last.label # "Pharmacy"

C6_Witness ==
    /\ cls_last.called
    /\ HasOverridePhrase(cls_text)
    /\ PharmacyHits(cls_text) >= 3
    /\ ~MeetsFinalBill(cls_text)
    /\ cls_last.label = "Bill Detail"

\* C7: in a returned result with a Bill Detail page, no page whose raw text
\* lacks every core pharmacy token is labelled Pharmacy.
C7_ReconciledLabels ==
    (Succeeded /\ \E i \in 1..Len(response.pagewise_line_items) :
                      response.pagewise_line_items[i].page_type = "Bill Detail")
        => \A j \in 1..Len(response.pagewise_line_items) :
               ~AnyHit(core_pharmacy_tokens, Lower(ocr_texts[j]))
                   => response.pagewise_line_items[j].page_type # "Pharmacy"

\* C8: the response of /extract always carries a success flag: false with an
\* error description and no page data on failure, true with token usage, pages
\* and total item count on success.
C8_ResponseCarriesSuccessFlag ==
    pc = "done"
        => /\ "is_success" \in DOMAIN response
           /\ IF response.is_success
              THEN {"token_usage", "pagewise_line_items", "total_item_count"}
                       \subseteq DOMAIN response
              ELSE "error" \in DOMAIN response /\ ~Succeeded

\* C9: the running total equals the sum of the item-list lengths of the pages
\* appended so far, and total_item_count of a returned result equals the sum
\* over its pages.
C9_ItemCount ==
    /\ total_items = SumItems(final_output)
    /\ Succeeded => response.total_item_count = SumItems(response.pagewise_line_items)

C9_Witness ==
    /\ Succeeded
    /\ Len(response.pagewise_line_items) >= 2
    /\ response.total_item_count >= 1
    /\ \E i \in 1..Len(response.pagewise_line_items) :
           response.pagewise_line_items[i].bill_items = <<>>

\* C10 (as claimed): a text with at least 2 strong signals and at least 1
\* billing category is classified Final Bill, the example text among them.
C10_TwoSignalsOneCategory ==
    (cls_last.called /\ SignalCount(cls_text) >= 2 /\ CategoryCount(cls_text) >= 1)
        => cls_last.label = "Final Bill"

\* C10 (amended): a text with at least 2 strong signals and at least 2 billing
\* categories is classified Final Bill; the example text, with 3 signals and the
\* one category room rent, is classified Bill Detail.
C10_TwoSignalsTwoCategories ==
    cls_last.called
        => /\ MeetsFinalBill(cls_text) => cls_last.label = "Final Bill"
           /\ cls_text = ExampleFinalBillText => cls_last.label = "Bill Detail"

C10_Witness ==
    /\ cls_last.called
    /\ SignalCount(cls_text) = 2
    /\ CategoryCount(cls_text) = 2
    /\ cls_last.label = "Final Bill"

====
